---- MODULE Spec2Model ----
(***************************************************************************)
(* A model of clockwork_muse's two HTTP clients and of its runner:          *)
(*   - the search clients  tools/serper_retry.py (SerperDevToolRobust)     *)
(*     and tools/serper_tool.py (serper_search): the retry loop, the       *)
(*     backoff delay, the payload, the serper log (SpecSearch); the        *)
(*     filtered query (SpecQuery); the rendering of a decoded answer       *)
(*     (SpecRender);                                                       *)
(*   - the runner  main.py (main) with crew.py (ContentCrew.build): the    *)
(*     loop over the topics, the preflight, the contexts build() reads     *)
(*     from outputs/, the crew run and the exit status (SpecMain);         *)
(*   - the LLM client  logging_llm.py (LoggingLLM): protocol selection,    *)
(*     the /api/chat -> /api/generate fallback, the text read from the     *)
(*     answer (SpecLLM); the options of the native requests (SpecOptions); *)
(*     the trace files of concurrent calls (SpecTrace).                    *)
(* Time is counted in ticks: one tick is 0.2 s / DelayScale, so that the   *)
(* delays the loops compute are integers.  A backoff factor is counted in  *)
(* halves (3 is 1.5).                                                      *)
(***************************************************************************)
EXTENDS Integers, Sequences, FiniteSets, TLC

VARIABLES
    \* ---- one search call (SerperDevToolRobust._run or serper_search)
    spc,        \* position: "idle", "loop", "done" ("ctorfailed": no instance)
    client,     \* "robust" (_run/_http) or "tool" (serper_search)
    apiKey,     \* whether SERPER_API_KEY is configured
    sArgs,      \* the arguments of the call: search_query and num
    payload,    \* the local `payload`
    retries,    \* self.retries / retries
    backoff,    \* self.backoff / backoff, in halves
    attempt,    \* the loop variable of `for attempt in range(1, retries + 1)`
    delay,      \* the local `delay`, in ticks
    lastErr,    \* the local `last_err`
    posts,      \* the requests.post calls issued in this call, in order
    sleeps,     \* the time.sleep calls performed in this call, in order
    slog,       \* the entries this call appended to logs/tools/serper.log
    sresult,    \* "none", "returned" or "raised"
    sraised,    \* the exception that left the call
    sout,       \* the value the call returned
    \* ---- the LoggingLLM instance and one call() on it
    lpc,        \* "new", "failed", "ready", "chat", "generate", "openai", "done"
    cfgArg,     \* the api_style argument of __init__ (a string, or None)
    cfgEnv,     \* the LLM_API_STYLE environment value (a string, or None)
    cfgBase,    \* the base_url argument of __init__
    apiStyle,   \* self.api_style
    selfTemp,   \* self.temperature (a number in tenths, or None)
    kwargs,     \* the generation parameters passed to call()
    lposts,     \* the endpoints POSTed to in this call, with the answers
    ltraces,    \* the trace files (.txt) this call wrote
    lresult,    \* "none", "returned" or "raised"
    lraised,    \* the exception that left the call
    ltext,      \* the text the call returned
    \* ---- one evaluation of _build_filtered_query
    qpc,        \* "input" or "built"
    qArg,       \* the argument q
    envTerms,   \* the SEARCH_EXCLUDE_TERMS environment value (a string, or None)
    envDomains, \* the SEARCH_EXCLUDE_DOMAINS environment value
    qOut,       \* the string returned
    \* ---- one rendering of a decoded 2xx answer (the end of _run and of
    \*      serper_search's 2xx branch)
    rpc,        \* "input" or "done"
    rClient,    \* "robust" or "tool"
    rData,      \* `data`, the decoded body
    rNum,       \* the payload's num (robust), the argument num (tool)
    rOut,       \* what the rendering returned or that it raised
    \* ---- concurrent LoggingLLM.call()s writing into one log directory
    tcalls,     \* per call: position, self.model, stamp, token
    tfiles,     \* the .txt files of the log directory, each with its writer
    twrites,    \* the write_text calls performed, in order
    \* ---- one run of the runner main() (clockwork_muse/main.py)
    mpc,        \* "loop", "preflight", "build", "kickoff", "exited"
    mTopics,    \* args.topics
    mStage,     \* args.stage
    mSkip,      \* args.skip_preflight
    mIdx,       \* how many topics the `for t in args.topics` loop has taken
    mFiles,     \* the files under outputs/, each with its text
    mTasks,     \* the tasks of the crew built for the current topic
    mTaskIdx,   \* kickoff: the next task of the crew to execute
    mEvents,    \* what the run did, in order
    mExit       \* how main() ended

searchVars == <<spc, client, apiKey, sArgs, payload, retries, backoff, attempt, delay, lastErr,
                posts, sleeps, slog, sresult, sraised, sout>>
llmVars == <<lpc, cfgArg, cfgEnv, cfgBase, apiStyle, selfTemp, kwargs, lposts, ltraces, lresult,
             lraised, ltext>>
queryVars == <<qpc, qArg, envTerms, envDomains, qOut>>
renderVars == <<rpc, rClient, rData, rNum, rOut>>
traceVars == <<tcalls, tfiles, twrites>>
mainVars == <<mpc, mTopics, mStage, mSkip, mIdx, mFiles, mTasks, mTaskIdx, mEvents, mExit>>
pureVars == <<queryVars, renderVars, traceVars, mainVars>>
vars == <<searchVars, llmVars, pureVars>>

\* ------------------------------------------------------------------ bounds

\* The largest configured attempt count the model explores.
MaxRetries == 3

\* 0.2 s in ticks: a power of two, so that MaxRetries + 1 multiplications by
\* a factor counted in halves stay exact.
DelayScale == 2 ^ (MaxRetries + 1)

\* The backoff factors explored, in halves: 0, 0.5, 1.0 and 1.5 (the default).
BackoffHalves == {0, 1, 2, 3}

\* The HTTP statuses the transport may answer with.
Statuses == {200, 401, 429, 503}

\* The shapes of a search response body:
\*   "undecodable"  r.json() raises
\*   "nonobject"    JSON that is no object (data.get raises)
\*   "baditems"     an object whose list holds an item that is no object
\*   "empty"        an object with neither an organic nor a results key
\*   "organic"      an object with a well-formed organic list
SearchBodies == {"undecodable", "nonobject", "baditems", "empty", "organic"}

\* What one requests.post may do: answer with a status (and, when 2xx, a
\* body), or raise a network-level exception.
TransportOutcomes ==
    [kind : {"status"}, status : {200}, body : SearchBodies]
    \cup [kind : {"status"}, status : Statuses \ {200}, body : {"text"}]
    \cup [kind : {"timeout", "connection"}, status : {0}, body : {"text"}]

\* ------------------------------------------------------- search: helpers

NoErr == [kind |-> "none", attempt |-> 0, status |-> 0]
Err(k, a, s) == [kind |-> k, attempt |-> a, status |-> s]

\* `200 <= r.status_code < 300`
IsSuccess(status) == 200 <= status /\ status < 300

\* `r.status_code not in (429, 500, 502, 503, 504)`, negated
Retryable(status) == status \in {429, 500, 502, 503, 504}

\* requests' Response.raise_for_status raises for 4xx and 5xx only
RaiseForStatusRaises(status) == 400 <= status /\ status < 600

\* MoreAttempts with the range one too long (`range(1, retries + 2)`)
MoreAttemptsOneMore(a, n) == a <= n + 1

\* MoreAttempts with the range one too short (`range(1, retries)`)
MoreAttemptsOneLess(a, n) == a < n

\* `for attempt in range(1, retries + 1)`: whether the loop body runs again
MoreAttempts(a, n) == a <= n

\* `delay = 0.2` (serper_retry.py) and `delay = 0.0` (serper_tool.py)
InitialDelayRobust == DelayScale
InitialDelayTool == 0

\* delay * backoff, the factor in halves
Times(d, b) == (d * b) \div 2

\* `delay = delay * self.backoff`
NextDelayRobust(d, b) == Times(d, b)

\* NextDelayTool without its `or 0.2` (`delay = delay * backoff`)
NextDelayToolStuck(d, b) == Times(d, b)

\* `delay = (delay or 0.2) * backoff`
NextDelayTool(d, b) == Times(IF d = 0 THEN DelayScale ELSE d, b)

\* `if delay: time.sleep(delay)`
SleepBefore(a, d) == IF d # 0 THEN <<[before |-> a, dur |-> d]>> ELSE <<>>

\* r.json(): whether it raises
JsonRaises(body) == body = "undecodable"

\* the rendering of `data` (data.get, it.get, .strip): whether it raises
RenderRaises(body) == body \in {"nonobject", "baditems"}

\* "\n".join(lines) or json.dumps(data) / _pretty(data)
Render(body) == IF body = "organic" THEN "lines" ELSE "rawjson"

\* The error one failed attempt leaves in last_err.  A status that is not
\* retryable goes through r.raise_for_status(), inside the try block: what it
\* raises is caught by `except Exception as e: last_err = e`; when it raises
\* nothing (a 1xx/3xx status) the next statement builds the error.
AttemptError(o, a) ==
    IF o.kind = "status"
    THEN IF IsSuccess(o.status)
         THEN IF JsonRaises(o.body) THEN Err("json", a, o.status)
              ELSE Err("shape", a, o.status)
         ELSE IF ~Retryable(o.status) /\ RaiseForStatusRaises(o.status)
              THEN Err("raise_for_status", a, o.status)
              ELSE Err("status", a, o.status)
    ELSE Err(o.kind, a, 0)

\* ---------------------------------------------------------- LLM: strings

\* A Python str is a sequence of one-character strings; None is Unset.
Unset == [given |-> FALSE, val |-> <<>>]
Str(s) == [given |-> TRUE, val |-> s]

Upper == <<"A", "B", "C", "D", "E", "F", "G", "H", "I", "J", "K", "L", "M",
           "N", "O", "P", "Q", "R", "S", "T", "U", "V", "W", "X", "Y", "Z">>
Lower == <<"a", "b", "c", "d", "e", "f", "g", "h", "i", "j", "k", "l", "m",
           "n", "o", "p", "q", "r", "s", "t", "u", "v", "w", "x", "y", "z">>

\* str.lower, one character
LowerChar(c) ==
    IF \E i \in 1..Len(Upper) : Upper[i] = c
    THEN Lower[CHOOSE i \in 1..Len(Upper) : Upper[i] = c]
    ELSE c

\* str.lower
ToLower(s) == [i \in 1..Len(s) |-> LowerChar(s[i])]

\* the characters str.strip() removes
Whitespace == {" ", "\t", "\n"}

\* str.rstrip(chars): drop the longest suffix made of chars
RECURSIVE RStripChars(_, _)
RStripChars(s, chars) ==
    IF s # <<>> /\ s[Len(s)] \in chars
    THEN RStripChars(SubSeq(s, 1, Len(s) - 1), chars)
    ELSE s

RECURSIVE LStripChars(_, _)
LStripChars(s, chars) ==
    IF s # <<>> /\ s[1] \in chars
    THEN LStripChars(Tail(s), chars)
    ELSE s

\* str.strip()
Strip(s) == LStripChars(RStripChars(s, Whitespace), Whitespace)

\* str.endswith
EndsWith(s, suffix) ==
    /\ Len(s) >= Len(suffix)
    /\ SubSeq(s, Len(s) - Len(suffix) + 1, Len(s)) = suffix

OPENAI == <<"o", "p", "e", "n", "a", "i">>
OLLAMA == <<"o", "l", "l", "a", "m", "a">>

\* `x or y` on strings: None and "" are falsy
Truthy(x) == x.given /\ x.val # <<>>

\* os.getenv("LLM_API_STYLE", "")
GetEnvStyle(env) == IF env.given THEN env.val ELSE <<>>

\* `(api_style or os.getenv("LLM_API_STYLE", "")).strip().lower()`
ConfiguredStyle(arg, env) ==
    ToLower(Strip(IF Truthy(arg) THEN arg.val ELSE GetEnvStyle(env)))

\* `self.base_url = base_url.rstrip("/")`
BaseUrl(base) == RStripChars(base, {"/"})

\* InferStyle on the URL as given, its trailing slashes kept
InferStyleRawUrl(base) ==
    IF EndsWith(base, <<"/", "v", "1">>) THEN OPENAI ELSE OLLAMA

\* `"openai" if self.base_url.endswith("/v1") else "ollama"`
InferStyle(base) ==
    IF EndsWith(BaseUrl(base), <<"/", "v", "1">>) THEN OPENAI ELSE OLLAMA

\* ChooseStyle with a configured style that is neither openai nor ollama
\* treated as no style at all
ChooseStyleUnknownInfers(arg, env, base) ==
    IF ConfiguredStyle(arg, env) \in {OPENAI, OLLAMA}
    THEN ConfiguredStyle(arg, env)
    ELSE InferStyle(base)

\* the style __init__ settles on, before it is validated
ChooseStyle(arg, env, base) ==
    IF ConfiguredStyle(arg, env) # <<>>
    THEN ConfiguredStyle(arg, env)
    ELSE InferStyle(base)

\* `style not in ("openai", "ollama")`, negated
SupportedStyle(style) == style \in {OPENAI, OLLAMA}

\* ---------------------------------------------------- LLM: the transport

\* The api_style arguments, LLM_API_STYLE values and base URLs explored.
StyleArgs ==
    { Unset, Str(<<>>), Str(<<" ">>), Str(OPENAI), Str(OLLAMA),
      Str(<<"O", "p", "e", "n", "A", "I", " ">>), Str(<<"a", "u", "t", "o">>) }
StyleEnvs == { Unset, Str(OPENAI), Str(<<" ", "O", "L", "L", "A", "M", "A">>) }
BaseUrls ==
    { <<"h">>, <<"h", "/">>, <<"h", "/", "v", "1">>, <<"h", "/", "v", "1", "/">>,
      <<"h", "/", "V", "1">>, <<"h", "/", "a", "v", "1">> }

\* A decoded response body: a JSON object with or without message.content,
\* response and choices[0].message.content ("absent": missing or null), or
\* JSON that is no object.
Texts(t) == {"absent", "", t}
LLMBodies ==
    [shape : {"object"}, content : Texts("M"), response : Texts("R"),
     choice : {"absent", "C"}]
    \cup [shape : {"nonobject"}, content : {"absent"}, response : {"absent"},
          choice : {"absent"}]
NoBody == [shape |-> "none", content |-> "absent", response |-> "absent",
           choice |-> "absent"]

\* What one _post_json may do: return the decoded body ("ok"), raise
\* requests.HTTPError from raise_for_status ("http"), fail to decode a 2xx
\* answer ("undecodable"), or raise a network-level exception.
LLMOutcomes ==
    [kind : {"ok"}, status : {200}, body : LLMBodies]
    \cup [kind : {"http"}, status : {401, 404, 500}, body : {NoBody}]
    \cup [kind : {"undecodable"}, status : {200}, body : {NoBody}]
    \cup [kind : {"timeout", "connection"}, status : {0}, body : {NoBody}]

\* `x or ...` on a field of the body
Present(t) == t \notin {"absent", ""}

\* `(data.get("message", {}) or {}).get("content") or data.get("response") or ""`
ChatText(b) ==
    IF Present(b.content) THEN b.content
    ELSE IF Present(b.response) THEN b.response ELSE ""

\* GenText reading the two fields in /api/chat's order
GenTextContentFirst(b) ==
    IF Present(b.content) THEN b.content
    ELSE IF Present(b.response) THEN b.response ELSE ""

\* `data.get("response") or (data.get("message", {}) or {}).get("content") or ""`
GenText(b) ==
    IF Present(b.response) THEN b.response
    ELSE IF Present(b.content) THEN b.content ELSE ""

\* `((data.get("choices") or [{}])[0].get("message") or {}).get("content") or ""`
OpenAIText(b) == IF Present(b.choice) THEN b.choice ELSE ""

\* ---- the options sub-object of the native requests
\* Numbers are counted in tenths (25 is 2.5), so that int() has something to
\* cut off; float() of a number keeps its value.

NoneNum == [given |-> FALSE, v |-> 0]
NoneText == [given |-> FALSE, v |-> ""]
Some(v) == [given |-> TRUE, v |-> v]

\* temperature not among the keyword arguments
NotPassed == [passed |-> FALSE, given |-> FALSE, v |-> 0]
Passed(x) == [passed |-> TRUE, given |-> x.given, v |-> x.v]

\* int(x), x >= 0 in tenths: the whole part
ToInt(x) == x \div 10

\* `temperature = kwargs.get("temperature", self.temperature or 0.0)`
Temperature(kw, self_temperature) ==
    IF kw.temperature.passed
    THEN [given |-> kw.temperature.given, v |-> kw.temperature.v]
    ELSE IF self_temperature.given /\ self_temperature.v # 0
         THEN Some(self_temperature.v)
         ELSE Some(0)

\* `"options": {}` and `d[k] = v`
EmptyOptions == <<>>
Put(d, k, v) == [x \in DOMAIN d \cup {k} |-> IF x = k THEN v ELSE d[x]]

\* chat_payload["options"] as POSTed to /api/chat
ChatOptions(kw, temperature) ==
    LET o1 == IF kw.max_tokens.given
              THEN Put(EmptyOptions, "num_predict", ToInt(kw.max_tokens.v))
              ELSE EmptyOptions
        o2 == IF temperature.given THEN Put(o1, "temperature", temperature.v)
              ELSE o1
        o3 == IF kw.stop.given THEN Put(o2, "stop", kw.stop.v) ELSE o2
        o4 == IF kw.top_p.given THEN Put(o3, "top_p", kw.top_p.v) ELSE o3
    IN  IF kw.seed.given THEN Put(o4, "seed", ToInt(kw.seed.v)) ELSE o4

\* GenOptions with the token cap left under the caller's name
GenOptionsMaxTokens(kw, temperature) ==
    LET o1 == IF kw.max_tokens.given
              THEN Put(EmptyOptions, "max_tokens", ToInt(kw.max_tokens.v))
              ELSE EmptyOptions
        o2 == IF temperature.given THEN Put(o1, "temperature", temperature.v)
              ELSE o1
        o3 == IF kw.stop.given THEN Put(o2, "stop", kw.stop.v) ELSE o2
        o4 == IF kw.top_p.given THEN Put(o3, "top_p", kw.top_p.v) ELSE o3
    IN  IF kw.seed.given THEN Put(o4, "seed", ToInt(kw.seed.v)) ELSE o4

\* gen_payload["options"] as POSTed to /api/generate
GenOptions(kw, temperature) ==
    LET o1 == IF kw.max_tokens.given
              THEN Put(EmptyOptions, "num_predict", ToInt(kw.max_tokens.v))
              ELSE EmptyOptions
        o2 == IF temperature.given THEN Put(o1, "temperature", temperature.v)
              ELSE o1
        o3 == IF kw.stop.given THEN Put(o2, "stop", kw.stop.v) ELSE o2
        o4 == IF kw.top_p.given THEN Put(o3, "top_p", kw.top_p.v) ELSE o3
    IN  IF kw.seed.given THEN Put(o4, "seed", ToInt(kw.seed.v)) ELSE o4

\* The keyword arguments and the instance temperatures explored.
NoKwargs ==
    [max_tokens |-> NoneNum, temperature |-> NotPassed, stop |-> NoneText,
     top_p |-> NoneNum, seed |-> NoneNum]
KwargsValues ==
    [max_tokens : {NoneNum, Some(645)},
     temperature : {NotPassed, Passed(NoneNum), Passed(Some(7))},
     stop : {NoneText, Some("END")},
     top_p : {NoneNum, Some(9)},
     seed : {NoneNum, Some(0), Some(420)}]
SelfTemperatures == {NoneNum, Some(0), Some(2)}

\* FallsBack with its status test inverted (`== 404` where the code has `!= 404`)
FallsBackInverted(o) == o.kind = "http" /\ o.status # 404

\* FallsBack without its status test (`except requests.HTTPError: pass`)
FallsBackAnyHttp(o) == o.kind = "http"

\* `except requests.HTTPError as e: if e.response is None or
\*  e.response.status_code != 404: raise`: whether the call goes on to
\* /api/generate
FallsBack(o) == o.kind = "http" /\ o.status = 404

\* The exception a failed _post_json (or the reading of its result) raises.
LLMError(url, o) ==
    [kind |-> IF o.kind = "ok" THEN "shape" ELSE o.kind, url |-> url,
     status |-> o.status]
NoLLMErr == [kind |-> "none", url |-> "none", status |-> 0]

\* ------------------------------------------- search: the filtered query
\* Query strings are TLA+ strings; s[i] is written SubSeq(s, i, i).

\* a string environment variable that is not set
StrUnset == [given |-> FALSE, val |-> ""]

\* `sub in s`
StrContains(s, sub) ==
    \E i \in 1..(Len(s) - Len(sub) + 1) : SubSeq(s, i, i + Len(sub) - 1) = sub

\* str.lower
RECURSIVE StrLower(_)
StrLower(s) ==
    IF s = "" THEN ""
    ELSE LowerChar(SubSeq(s, 1, 1)) \o StrLower(SubSeq(s, 2, Len(s)))

\* str.strip()
RECURSIVE StrStrip(_)
StrStrip(s) ==
    IF s # "" /\ SubSeq(s, 1, 1) \in Whitespace
    THEN StrStrip(SubSeq(s, 2, Len(s)))
    ELSE IF s # "" /\ SubSeq(s, Len(s), Len(s)) \in Whitespace
         THEN StrStrip(SubSeq(s, 1, Len(s) - 1))
         ELSE s

\* str.split(sep), sep one character
RECURSIVE StrSplit(_, _)
StrSplit(s, sep) ==
    IF ~StrContains(s, sep) THEN <<s>>
    ELSE LET i == CHOOSE k \in 1..Len(s) :
                      /\ SubSeq(s, k, k) = sep
                      /\ \A j \in 1..(k - 1) : SubSeq(s, j, j) # sep
         IN  <<SubSeq(s, 1, i - 1)>> \o StrSplit(SubSeq(s, i + 1, Len(s)), sep)

\* sep.join(parts)
RECURSIVE StrJoin(_, _)
StrJoin(parts, sep) ==
    IF parts = <<>> THEN ""
    ELSE IF Len(parts) = 1 THEN parts[1]
         ELSE parts[1] \o sep \o StrJoin(Tail(parts), sep)

DEFAULT_EXCLUDE_TERMS ==
    <<"virtual tour", "360", "vr", "promo", "advertisement", "trailer", "4k",
      "walkthrough", "pov", "ride pov">>

DEFAULT_EXCLUDE_DOMAINS == <<"pinterest.com", "x.com", "twitter.com">>

\* `[t.strip() for t in os.getenv(NAME, "").split(",") if t.strip()]`
EnvList(env) ==
    LET raw == StrSplit(IF env.given THEN env.val ELSE "", ",")
        stripped == [i \in 1..Len(raw) |-> StrStrip(raw[i])]
    IN  SelectSeq(stripped, LAMBDA t : t # "")

\* the keywords whose presence in q suppresses the boost clause
BoostKeywords == <<"tip", "guide", "how to", "mistakes", "things to know">>

BoostClause == "(tips OR guide OR \"how to\")"

\* HasBoostKeyword on q as typed, its case kept
HasBoostKeywordCaseSensitive(q) ==
    \E i \in 1..Len(BoostKeywords) : StrContains(q, BoostKeywords[i])

\* `any(k in q.lower() for k in (...))`
HasBoostKeyword(q) ==
    \E i \in 1..Len(BoostKeywords) : StrContains(StrLower(q), BoostKeywords[i])

\* `f'-"{t}"'` and `f"-site:{d}"`
TermClause(t) == "-\"" \o t \o "\""
DomainClause(d) == "-site:" \o d

\* _build_filtered_query(q) under the two environment values
build_filtered_query(q, terms, domains) ==
    LET excludes == DEFAULT_EXCLUDE_TERMS \o EnvList(terms)
        doms == DEFAULT_EXCLUDE_DOMAINS \o EnvList(domains)
        boost == IF HasBoostKeyword(q) THEN <<>> ELSE <<BoostClause>>
    IN  StrJoin(<<q>> \o boost
                \o [i \in 1..Len(excludes) |-> TermClause(excludes[i])]
                \o [i \in 1..Len(doms) |-> DomainClause(doms[i])], " ")

\* The queries and the environment values explored.
Queries ==
    { "", "rome", "Rome TIPS", "a Guide", "How To pack", "MISTAKES",
      "Things to Know", "howto rome", "stipend",
      "rome (tips OR guide OR \"how to\")" }
EnvTermValues ==
    { StrUnset, Str(""), Str("drone"), Str(" drone , ,aerial view,"),
      Str("vr"), Str("drone,drone"), Str(BoostClause) }
EnvDomainValues ==
    { StrUnset, Str("a.com, b.org"), Str("x.com"), Str("x.com.au") }

\* No query is being built.
QueryAbsent ==
    /\ qpc = "input"
    /\ qArg = ""
    /\ envTerms = StrUnset
    /\ envDomains = StrUnset
    /\ qOut = ""

\* --------------------------------------- search: rendering the answer
\* A decoded JSON value is a record: a field of an item is absent (or null:
\* dict.get gives None for both), a string, or a number kept as its decimal
\* text.

\* U+2014, the dash of the rendered line, written in ASCII
EMDASH == "--"

JAbsent == [t |-> "absent", s |-> ""]
JStr(s) == [t |-> "str", s |-> s]
JNum(s) == [t |-> "num", s |-> s]

\* Python truth of a field value: None, "" and 0 are falsy
ValTruthy(v) == (v.t = "str" /\ v.s # "") \/ (v.t = "num" /\ v.s # "0")

\* `a or b`
ValOr(a, b) == IF ValTruthy(a) THEN a ELSE b

\* An element of the item list: a JSON object with these six fields (others
\* are never read), or JSON that is no object.
NonObjectItem ==
    [obj |-> FALSE, title |-> JAbsent, name |-> JAbsent, link |-> JAbsent,
     url |-> JAbsent, snippet |-> JAbsent, summary |-> JAbsent]

\* The value under "organic" or "results": the key is absent, a list, or a
\* truthy value that is no list.
LAbsent == [t |-> "absent", v |-> <<>>]
LList(v) == [t |-> "list", v |-> v]
LScalar == [t |-> "scalar", v |-> <<>>]

\* The decoded body when it is no JSON object.
NonObjectBody == [obj |-> FALSE, organic |-> LAbsent, results |-> LAbsent]

\* Python truth of data.get(key, []): an empty list is falsy
ListTruthy(l) == l.t = "scalar" \/ (l.t = "list" /\ l.v # <<>>)

\* SelectItems reading results only when the organic key is absent
SelectItemsByKey(data) ==
    IF data.organic.t # "absent" THEN data.organic
    ELSE IF data.results.t = "absent" THEN LList(<<>>) ELSE data.results

\* `items = data.get("organic", []) or data.get("results", [])`
SelectItems(data) ==
    IF ListTruthy(data.organic) THEN data.organic
    ELSE IF data.results.t = "absent" THEN LList(<<>>) ELSE data.results

\* `title = it.get("title") or it.get("name") or it.get("link")`
ItemTitle(it) == ValOr(ValOr(it.title, it.name), it.link)

\* `link = it.get("link") or it.get("url")`
ItemLink(it) == ValOr(it.link, it.url)

\* `it.get("snippet") or it.get("summary") or ""`, before .strip()
ItemSnippetValue(it) == ValOr(ValOr(it.snippet, it.summary), JStr(""))

\* `snippet = (...).strip()`
ItemSnippet(it) == StrStrip(ItemSnippetValue(it).s)

\* `if title and link`
ItemKept(it) == ValTruthy(ItemTitle(it)) /\ ValTruthy(ItemLink(it))

\* the f-string appended to lines
ItemLine(it) ==
    "- [" \o ItemTitle(it).s \o "](" \o ItemLink(it).s \o ") " \o EMDASH
        \o " " \o ItemSnippet(it)

\* The loop body raises: `it.get` on an element that is no object
\* (AttributeError), `.strip()` on a number (AttributeError).
ItemRaises(it) == ~it.obj \/ ItemSnippetValue(it).t = "num"

\* items[:n]
Take(seq, n) == SubSeq(seq, 1, IF n < Len(seq) THEN n ELSE Len(seq))

\* the list `lines` after the loop over items
RECURSIVE Lines(_)
Lines(items) ==
    IF items = <<>> THEN <<>>
    ELSE (IF ItemKept(Head(items)) THEN <<ItemLine(Head(items))>> ELSE <<>>)
             \o Lines(Tail(items))

\* `num = max(1, min(10, int(num)))`
ClampNum(num) == IF num < 1 THEN 1 ELSE IF num > 10 THEN 10 ELSE num

\* _normalize on a string: "num": 5
DefaultNum == 5

\* the slice bound: payload.get("num", 5) in _run, num in serper_search
Limit(c, num) == IF c = "robust" THEN num ELSE ClampNum(num)

\* json.dumps(data) (_run) and _pretty(data), json.dumps with indent=2
\* (serper_search): the JSON text of data, kept as the value it encodes and
\* the indentation.
JsonDumps(c, data) == [of |-> data, indent |-> IF c = "robust" THEN 0 ELSE 2]
NoJson == [of |-> NonObjectBody, indent |-> 0]

\* The rendering raises: `data.get` on a body that is no object, slicing a
\* value that is no list, or the loop body on one of the first `limit` items.
RenderingRaises(data, limit) ==
    \/ ~data.obj
    \/ SelectItems(data).t = "scalar"
    \/ \E i \in 1..Len(Take(SelectItems(data).v, limit)) :
           ItemRaises(SelectItems(data).v[i])

\* From `items = ...` to the value returned: `"\n".join(lines) or <JSON>`.
RenderData(c, data, num) ==
    IF RenderingRaises(data, Limit(c, num))
    THEN [kind |-> "raised", text |-> "", json |-> NoJson]
    ELSE LET text == StrJoin(Lines(Take(SelectItems(data).v, Limit(c, num))), "\n")
         IN  IF text # ""
             THEN [kind |-> "text", text |-> text, json |-> NoJson]
             ELSE [kind |-> "json", text |-> "", json |-> JsonDumps(c, data)]

\* The answers explored.
Item(title, name, link, url, snippet, summary) ==
    [obj |-> TRUE, title |-> title, name |-> name, link |-> link, url |-> url,
     snippet |-> snippet, summary |-> summary]
AllItems ==
    { Item(a, b, c, d, e, f) :
        a \in {JAbsent, JStr(""), JStr("T")}, b \in {JAbsent, JStr("N")},
        c \in {JAbsent, JStr("L")}, d \in {JAbsent, JStr("U")},
        e \in {JAbsent, JStr(" S "), JNum("7")}, f \in {JAbsent, JStr("Y")} }
    \cup {NonObjectItem}
PlainItem == Item(JStr("T"), JAbsent, JStr("L"), JAbsent, JStr("S"), JAbsent)
OtherItem == Item(JAbsent, JStr("N"), JAbsent, JStr("U"), JAbsent, JStr("Y"))
FewItems ==
    { PlainItem, OtherItem,
      Item(JStr("T"), JAbsent, JAbsent, JAbsent, JAbsent, JAbsent),
      Item(JAbsent, JAbsent, JAbsent, JStr("U"), JAbsent, JAbsent),
      NonObjectItem }
ItemLists ==
    {<<>>} \cup { <<i>> : i \in AllItems \cup {PlainItem} }
           \cup { <<i, j>> : i \in FewItems, j \in FewItems }
           \cup { <<PlainItem, PlainItem, OtherItem, PlainItem, OtherItem,
                    PlainItem>> }
Bodies ==
    { [obj |-> TRUE, organic |-> o, results |-> r] :
        o \in {LAbsent, LScalar} \cup { LList(l) : l \in ItemLists },
        r \in {LAbsent, LList(<<OtherItem>>)} }
    \cup {NonObjectBody}
NumArgs == {0, 1, 2, 11}

\* Nothing is being rendered.
RenderAbsent ==
    /\ rpc = "input"
    /\ rClient = "tool"
    /\ rData = NonObjectBody
    /\ rNum = 0
    /\ rOut = [kind |-> "none", text |-> "", json |-> NoJson]

\* ------------------------------------------------- LLM: the trace files

\* The calls that run concurrently, the model ids of their instances, the
\* seconds datetime.now() may fall into and the values uuid4().hex[:8] may
\* take (two draws are independent and may be equal).
Calls == {"call1", "call2"}
Models == {"qwen/7b", "qwen_7b"}
Stamps == {"20250101-120000", "20250101-120001"}
Tokens == {"1f0e9a3c", "b7d25c48"}

\* str.replace(old, new), old one character
RECURSIVE StrReplace(_, _, _)
StrReplace(s, old, new) ==
    IF s = "" THEN ""
    ELSE (IF SubSeq(s, 1, 1) = old THEN new ELSE SubSeq(s, 1, 1))
             \o StrReplace(SubSeq(s, 2, Len(s)), old, new)

\* `prefix = f"{stamp}-{self.model.replace('/', '_')}-{token}"`
TracePrefix(stamp, model, token) ==
    stamp \o "-" \o StrReplace(model, "/", "_") \o "-" \o token

\* A call that has not started.
IdleCall(model) == [pc |-> "idle", model |-> model, stamp |-> "", token |-> ""]

\* No call is under way.
TraceAbsent ==
    /\ tcalls = [c \in Calls |-> IdleCall("qwen/7b")]
    /\ tfiles = {}
    /\ twrites = <<>>

\* ------------------------------------------------ the runner: definitions

\* The largest number of topics (--topics, nargs="+") the model explores.
MaxTopics == 2

TopicNames == {"rome", "kyoto"}

\* `--topics`: one or more topics.
TopicLists == UNION { [1..n -> TopicNames] : n \in 1..MaxTopics }

\* `--stage`, `choices=[...]`.
Stages == {"all", "research", "outline", "script", "edit", "assets"}

RESEARCH_MD == "outputs/research.md"
OUTLINE_MD == "outputs/outline.md"
SCRIPT_MD == "outputs/script.md"

\* The files under outputs/ the model follows: the three build() reads, and
\* one standing for every other output file.
OutputFiles == {RESEARCH_MD, OUTLINE_MD, SCRIPT_MD, "outputs/other.md"}

\* A text is identified by the task execution that produced it: the loop
\* iteration (0: before this run of main()), the topic and the task.
\* _read's `txt[:MAX_CONTEXT_CHARS]` keeps a prefix of the text, which is
\* still the text of that execution.
Text(iter, topic, key) == [iter |-> iter, topic |-> topic, key |-> key]

\* the empty string
EmptyText == Text(0, "", "")

\* the path does not exist
NoFile == Text(0, "", "nofile")

\* what an earlier run of the pipeline left in a file
EarlierText(path) == Text(0, "earlier", path)

\* `_read(path)`: "" when the file does not exist, else its text.
_read(files, path) == IF files[path] = NoFile THEN EmptyText ELSE files[path]

\* `if not ctx`, `if not script_md`, `if extra_context`
TextTruthy(t) == t # EmptyText

\* A context string: the texts it is put together from, and whether they
\* are framed by "Outline:" / "Sources:".
Ctx(framed, parts) == [framed |-> framed, parts |-> parts]

NoCtx == Ctx(FALSE, <<>>)

Plain(t) == Ctx(FALSE, IF TextTruthy(t) THEN <<t>> ELSE <<>>)

\* build(): `research_md = _read("outputs/research.md")`
OutlineCtx(files) == Plain(_read(files, RESEARCH_MD))

\* build(): `ctx = _read("outputs/outline.md")`; without an outline the
\* research alone, else f"Outline:\n{ctx}\n\nSources:\n{_read(research)}".
ScriptCtx(files) ==
    LET ctx == _read(files, OUTLINE_MD)
        research == _read(files, RESEARCH_MD)
    IN  IF ~TextTruthy(ctx)
        THEN Plain(research)
        ELSE Ctx(TRUE, <<ctx>> \o Plain(research).parts)

\* build(): `script_md = _read("outputs/script.md")`, without a script
\* `_read("outputs/outline.md")`.
EditCtx(files) ==
    LET script_md == _read(files, SCRIPT_MD)
    IN  IF ~TextTruthy(script_md)
        THEN Plain(_read(files, OUTLINE_MD))
        ELSE Plain(script_md)

\* The `output_file` of a task (tasks.yaml; _mk_task hands it to the Task):
\* web_research, outline and script persist into the file the next stage's
\* context is read from.
OutputFile(key) ==
    CASE key = "web_research" -> RESEARCH_MD
      [] key = "outline" -> OUTLINE_MD
      [] key = "script" -> SCRIPT_MD
      [] OTHER -> "outputs/other.md"

\* `_mk_task(key, agent, inputs, extra_context)`; the description carries
\* "Context:" and the context when the context is not empty.
_mk_task(key, extra_context) ==
    [key |-> key, context |-> extra_context, output_file |-> OutputFile(key)]

\* build(): the tasks of the crew, in order; every context is read here.
BuildTasks(files, stage) ==
    (IF stage \in {"all", "research"}
     THEN <<_mk_task("trend_scan", NoCtx), _mk_task("web_research", NoCtx)>>
     ELSE <<>>)
    \o (IF stage \in {"all", "outline"}
        THEN <<_mk_task("outline", OutlineCtx(files))>>
        ELSE <<>>)
    \o (IF stage \in {"all", "script"}
        THEN <<_mk_task("script", ScriptCtx(files))>>
        ELSE <<>>)
    \o (IF stage \in {"all", "edit"}
        THEN <<_mk_task("edit_pass", EditCtx(files))>>
        ELSE <<>>)

\* build(): the _read calls it performs, in order, each for its task.
BuildReads(files, stage) ==
    (IF stage \in {"all", "outline"}
     THEN <<[key |-> "outline", path |-> RESEARCH_MD]>>
     ELSE <<>>)
    \o (IF stage \in {"all", "script"}
        THEN <<[key |-> "script", path |-> OUTLINE_MD],
               [key |-> "script", path |-> RESEARCH_MD]>>
        ELSE <<>>)
    \o (IF stage \in {"all", "edit"}
        THEN <<[key |-> "edit_pass", path |-> SCRIPT_MD]>>
             \o (IF ~TextTruthy(_read(files, SCRIPT_MD))
                 THEN <<[key |-> "edit_pass", path |-> OUTLINE_MD]>>
                 ELSE <<>>)
        ELSE <<>>)

\* main(): `if args.stage in ("all", "research") and not args.skip_preflight`
NeedsPreflight(stage, skip) == stage \in {"all", "research"} /\ ~skip

\* How main() ended: it returned a code, or an exception left it.
NoExit == [kind |-> "none", code |-> 0]
Returned(code) == [kind |-> "returned", code |-> code]
Propagated(exc) == [kind |-> exc.type, code |-> exc.code]

\* What a step of the run may raise: an ordinary exception (an uncaught one
\* ends the process with status 1) or a SystemExit with its status.
AnException == [type |-> "Exception", code |-> 1]
SystemExits == { [type |-> "SystemExit", code |-> c] : c \in {0, 1} }

\* preflight_tools: `raise SystemExit("[ABORT] ...")`, a message, status 1.
PreflightAbort == [type |-> "SystemExit", code |-> 1]

\* KickoffHandler with every exception of the crew run handled the same
KickoffHandlerCatchAll(exc) == Returned(2)

\* main(): `except SystemExit: raise`, `except Exception as e: ...; return 2`
\* around crew.kickoff.
KickoffHandler(exc) ==
    IF exc.type = "SystemExit" THEN Propagated(exc) ELSE Returned(2)

\* An entry of the record of what the run did.
Event(ev, idx, what) == [ev |-> ev, idx |-> idx, what |-> what]

\* No run of main() is under way.
MainAbsent ==
    /\ mpc = "absent"
    /\ mTopics = <<>>
    /\ mStage = "all"
    /\ mSkip = FALSE
    /\ mIdx = 0
    /\ mFiles = [f \in OutputFiles |-> NoFile]
    /\ mTasks = <<>>
    /\ mTaskIdx = 0
    /\ mEvents = <<>>
    /\ mExit = NoExit

PureAbsent == QueryAbsent /\ RenderAbsent /\ TraceAbsent /\ MainAbsent

\* ------------------------------------------------- search: the payload

\* The arguments explored: search_query, and num (serper_search only).
SearchArgs ==
    { [query |-> " rome ", num |-> DefaultNum], [query |-> "Rome TIPS", num |-> 11] }

\* before `payload = ...` is reached
NoPayload == [q |-> "", num |-> 0]

\* _normalize on a string, under the two exclusion environment values
Normalize(params, terms, domains) ==
    [q |-> build_filtered_query(params, terms, domains), num |-> DefaultNum,
     tbs |-> "qdr:y"]

\* serper_search: `payload = {"q": search_query, "num": num}`, num clamped
ToolPayload(search_query, num) == [q |-> search_query, num |-> ClampNum(num)]

\* PostedPayload with the query stripped again on every retry
PostedPayloadRestripped(p, a) ==
    IF a = 1 THEN p ELSE [p EXCEPT !.q = StrStrip(p.q)]

\* `requests.post(..., json=payload, ...)` in attempt a: the body sent
PostedPayload(p, a) == p

\* An entry of serper.log: its kind and the payload after "IN :".
LogEntry(kind, p) == [kind |-> kind, payload |-> p]

\* The search clients alone: no LoggingLLM exists.
LLMAbsent ==
    /\ lpc = "new"
    /\ cfgArg = Unset
    /\ cfgEnv = Unset
    /\ cfgBase = <<"h">>
    /\ apiStyle = <<>>
    /\ selfTemp = Some(2)
    /\ kwargs = NoKwargs
    /\ lposts = <<>>
    /\ ltraces = <<>>
    /\ lresult = "none"
    /\ lraised = NoLLMErr
    /\ ltext = ""

\* The LLM client alone: no search call is made.
SearchAbsent ==
    /\ spc = "idle"
    /\ client = "tool"
    /\ apiKey = FALSE
    /\ sArgs = [query |-> "", num |-> DefaultNum]
    /\ payload = NoPayload
    /\ retries = 0
    /\ backoff = 0
    /\ attempt = 0
    /\ delay = 0
    /\ lastErr = NoErr
    /\ posts = <<>>
    /\ sleeps = <<>>
    /\ slog = <<>>
    /\ sresult = "none"
    /\ sraised = NoErr
    /\ sout = "none"

\* ------------------------------------------- the filtered query: actions

InitQuery ==
    /\ qpc = "input"
    /\ qArg \in Queries
    /\ envTerms \in EnvTermValues
    /\ envDomains \in EnvDomainValues
    /\ qOut = ""
    /\ RenderAbsent
    /\ TraceAbsent
    /\ SearchAbsent
    /\ LLMAbsent
    /\ MainAbsent

\* One evaluation of _build_filtered_query.
BuildQuery ==
    /\ qpc = "input"
    /\ qpc' = "built"
    /\ qOut' = build_filtered_query(qArg, envTerms, envDomains)
    /\ UNCHANGED <<qArg, envTerms, envDomains>>
    /\ UNCHANGED <<searchVars, llmVars, mainVars, renderVars, traceVars>>

NextQuery == BuildQuery

\* ------------------------------------------ rendering the answer: actions

InitRender ==
    /\ rpc = "input"
    /\ rClient \in {"robust", "tool"}
    /\ rData \in Bodies
    /\ rNum \in IF rClient = "robust" THEN {DefaultNum} ELSE NumArgs
    /\ rOut = [kind |-> "none", text |-> "", json |-> NoJson]
    /\ QueryAbsent
    /\ TraceAbsent
    /\ SearchAbsent
    /\ LLMAbsent
    /\ MainAbsent

\* The rendering of one decoded 2xx answer.
RenderAnswer ==
    /\ rpc = "input"
    /\ rpc' = "done"
    /\ rOut' = RenderData(rClient, rData, rNum)
    /\ UNCHANGED <<rClient, rData, rNum>>
    /\ UNCHANGED <<searchVars, llmVars, mainVars, queryVars, traceVars>>

NextRender == RenderAnswer

\* ------------------------------------------------ the trace files: actions

InitTrace ==
    /\ tcalls \in { [c \in Calls |-> IdleCall(m[c])] : m \in [Calls -> Models] }
    /\ tfiles = {}
    /\ twrites = <<>>
    /\ QueryAbsent
    /\ RenderAbsent
    /\ SearchAbsent
    /\ LLMAbsent
    /\ MainAbsent

\* call(): `stamp = datetime.now().strftime(...)`, `token = uuid.uuid4().hex[:8]`.
TraceBegin(c) ==
    /\ tcalls[c].pc = "idle"
    /\ \E stamp \in Stamps, token \in Tokens :
           tcalls' = [tcalls EXCEPT ![c] = [@ EXCEPT !.pc = "posting",
                                                     !.stamp = stamp,
                                                     !.token = token]]
    /\ UNCHANGED <<tfiles, twrites>>
    /\ UNCHANGED <<searchVars, llmVars, mainVars, queryVars, renderVars>>

\* The POST answered and the text was read:
\* `(self.log_dir / f"{prefix}.txt").write_text(...)` creates the file or
\* replaces the one of that name.
TraceWrite(c) ==
    /\ tcalls[c].pc = "posting"
    /\ LET name == TracePrefix(tcalls[c].stamp, tcalls[c].model, tcalls[c].token)
                       \o ".txt"
       IN  /\ tfiles' = { f \in tfiles : f.name # name }
                            \cup {[name |-> name, by |-> c]}
           /\ twrites' = Append(twrites, [name |-> name, by |-> c])
    /\ tcalls' = [tcalls EXCEPT ![c] = [@ EXCEPT !.pc = "returned"]]
    /\ UNCHANGED <<searchVars, llmVars, mainVars, queryVars, renderVars>>

\* The POST or the reading of its answer raised: the call writes nothing.
TraceRaise(c) ==
    /\ tcalls[c].pc = "posting"
    /\ tcalls' = [tcalls EXCEPT ![c] = [@ EXCEPT !.pc = "raised"]]
    /\ UNCHANGED <<tfiles, twrites>>
    /\ UNCHANGED <<searchVars, llmVars, mainVars, queryVars, renderVars>>

NextTrace ==
    \E c \in Calls :
        \/ TraceBegin(c)
        \/ TraceWrite(c)
        \/ TraceRaise(c)

\* ---------------------------------------------------- the runner: actions

\* The state main() starts in: the parsed arguments, and outputs/ as an
\* earlier run of the pipeline (or none) left it.
InitMain ==
    /\ mpc = "loop"
    /\ mTopics \in TopicLists
    /\ mStage \in Stages
    /\ mSkip \in BOOLEAN
    /\ mIdx = 0
    /\ mFiles \in { [f \in OutputFiles |->
                        IF f \in had THEN EarlierText(f) ELSE NoFile] :
                    had \in SUBSET {RESEARCH_MD, OUTLINE_MD, SCRIPT_MD} }
    /\ mTasks = <<>>
    /\ mTaskIdx = 0
    /\ mEvents = <<>>
    /\ mExit = NoExit
    /\ QueryAbsent
    /\ RenderAbsent
    /\ TraceAbsent
    /\ SearchAbsent
    /\ LLMAbsent

\* `for t in args.topics:` takes the next topic and composes its inputs.
MainNextTopic ==
    /\ mpc = "loop"
    /\ mIdx < Len(mTopics)
    /\ mIdx' = mIdx + 1
    /\ mEvents' = Append(mEvents, Event("topic", mIdx + 1, mTopics[mIdx + 1]))
    /\ mpc' = IF NeedsPreflight(mStage, mSkip) THEN "preflight" ELSE "build"
    /\ UNCHANGED <<mTopics, mStage, mSkip, mFiles, mTasks, mTaskIdx, mExit>>
    /\ UNCHANGED <<searchVars, llmVars, queryVars, renderVars, traceVars>>

\* `preflight_tools()`: returns, or raises SystemExit (no key, an empty
\* Serper answer, too little scraped content), which leaves main().
MainPreflight ==
    /\ mpc = "preflight"
    /\ \E ok \in BOOLEAN :
        /\ mEvents' = Append(mEvents,
                Event("preflight", mIdx, IF ok THEN "ok" ELSE "abort"))
        /\ mpc' = IF ok THEN "build" ELSE "exited"
        /\ mExit' = IF ok THEN mExit ELSE Propagated(PreflightAbort)
    /\ UNCHANGED <<mTopics, mStage, mSkip, mIdx, mFiles, mTasks, mTaskIdx>>
    /\ UNCHANGED <<searchVars, llmVars, queryVars, renderVars, traceVars>>

\* `cc = ContentCrew()`, `crew = cc.build(inputs, stage=args.stage)`, outside
\* the try: an exception of the constructor or of build (a missing
\* configuration file or key, a name that is not defined) leaves main().
\* build reads every context from outputs/ here, before the crew runs.
MainBuild ==
    /\ mpc = "build"
    /\ \E ok \in BOOLEAN :
        IF ok
        THEN /\ mTasks' = BuildTasks(mFiles, mStage)
             /\ mTaskIdx' = 1
             /\ mEvents' = Append(mEvents, Event("build", mIdx, "ok"))
                    \o [k \in 1..Len(BuildReads(mFiles, mStage)) |->
                            Event("read", mIdx, BuildReads(mFiles, mStage)[k].path)]
             /\ mpc' = "kickoff"
             /\ mExit' = mExit
        ELSE /\ mEvents' = Append(mEvents, Event("build", mIdx, "raised"))
             /\ mpc' = "exited"
             /\ mExit' = Propagated(AnException)
             /\ UNCHANGED <<mTasks, mTaskIdx>>
    /\ UNCHANGED <<mTopics, mStage, mSkip, mIdx, mFiles>>
    /\ UNCHANGED <<searchVars, llmVars, queryVars, renderVars, traceVars>>

\* `crew.kickoff(inputs=inputs)`, `process=Process.sequential`: the next
\* task of the crew is executed with the description build gave it, and its
\* output is persisted to its output_file.
MainRunTask ==
    /\ mpc = "kickoff"
    /\ mTaskIdx <= Len(mTasks)
    /\ LET task == mTasks[mTaskIdx]
       IN  /\ mFiles' = [mFiles EXCEPT ![task.output_file] =
                            Text(mIdx, mTopics[mIdx], task.key)]
           /\ mEvents' = mEvents \o <<Event("ran", mIdx, task.key),
                                      Event("wrote", mIdx, task.output_file)>>
    /\ mTaskIdx' = mTaskIdx + 1
    /\ UNCHANGED <<mpc, mTopics, mStage, mSkip, mIdx, mTasks, mExit>>
    /\ UNCHANGED <<searchVars, llmVars, queryVars, renderVars, traceVars>>

\* crew.kickoff raises: the handlers around it decide how main() ends.
MainKickoffRaises ==
    /\ mpc = "kickoff"
    /\ \E exc \in {AnException} \cup SystemExits :
        /\ mEvents' = Append(mEvents, Event("failed", mIdx, exc.type))
        /\ mExit' = KickoffHandler(exc)
    /\ mpc' = "exited"
    /\ UNCHANGED <<mTopics, mStage, mSkip, mIdx, mFiles, mTasks, mTaskIdx>>
    /\ UNCHANGED <<searchVars, llmVars, queryVars, renderVars, traceVars>>

\* crew.kickoff returns after the last task: `print(result)`, next topic.
MainKickoffReturns ==
    /\ mpc = "kickoff"
    /\ mTaskIdx > Len(mTasks)
    /\ mEvents' = Append(mEvents, Event("completed", mIdx, mTopics[mIdx]))
    /\ mpc' = "loop"
    /\ UNCHANGED <<mTopics, mStage, mSkip, mIdx, mFiles, mTasks, mTaskIdx, mExit>>
    /\ UNCHANGED <<searchVars, llmVars, queryVars, renderVars, traceVars>>

\* The loop is through: `print("\n=== DONE ===")`, `return 0`.
MainReturn ==
    /\ mpc = "loop"
    /\ mIdx = Len(mTopics)
    /\ mpc' = "exited"
    /\ mExit' = Returned(0)
    /\ UNCHANGED <<mTopics, mStage, mSkip, mIdx, mFiles, mTasks, mTaskIdx, mEvents>>
    /\ UNCHANGED <<searchVars, llmVars, queryVars, renderVars, traceVars>>

NextMain ==
    \/ MainNextTopic
    \/ MainPreflight
    \/ MainBuild
    \/ MainRunTask
    \/ MainKickoffRaises
    \/ MainKickoffReturns
    \/ MainReturn

\* ------------------------------------------------------- search: actions

\* MissingKey with the credential never looked at
MissingKeyIgnored(key) == FALSE

\* `if not self.api_key` (model_post_init) and `if not api_key`
\* (serper_search): the credential is unset or empty.
MissingKey(key) == ~key

\* SerperDevToolRobust.model_post_init: `if not self.api_key: raise
\* RuntimeError(...)`.  Without a key the constructor raises and no instance
\* exists to call _run on; serper_search has no constructor.
CtorRaises(c, key) == c = "robust" /\ MissingKey(key)

\* The state after construction, and the configuration a search call runs
\* under.  SerperDevToolRobust takes retries and backoff from its fields or
\* SERPER_RETRIES / SERPER_BACKOFF (model_post_init), serper_search from the
\* same environment variables.
InitSearch ==
    /\ LLMAbsent
    /\ PureAbsent
    /\ client \in {"robust", "tool"}
    /\ apiKey \in BOOLEAN
    /\ sArgs \in SearchArgs
    /\ payload = NoPayload
    /\ retries \in 0..MaxRetries
    /\ backoff \in BackoffHalves
    /\ spc = IF CtorRaises(client, apiKey) THEN "ctorfailed" ELSE "idle"
    /\ attempt = 0
    /\ delay = 0
    /\ lastErr = NoErr
    /\ posts = <<>>
    /\ sleeps = <<>>
    /\ slog = <<>>
    /\ sresult = "none"
    /\ sraised = IF CtorRaises(client, apiKey) THEN Err("nokey", 0, 0) ELSE NoErr
    /\ sout = "none"

\* SerperDevToolRobust._run up to the first iteration of _http's loop.
RobustRun ==
    /\ spc = "idle"
    /\ client = "robust"
    /\ spc' = "loop"
    /\ attempt' = 1
    /\ payload' = Normalize(StrStrip(sArgs.query), envTerms, envDomains)
    /\ delay' = InitialDelayRobust
    /\ lastErr' = NoErr
    /\ UNCHANGED <<client, apiKey, sArgs, retries, backoff, posts, sleeps, slog,
                   sresult, sraised, sout>>
    /\ UNCHANGED <<llmVars, pureVars>>

\* One iteration of _http's loop; on a 2xx answer whose JSON decodes, _http
\* returns and _run logs, renders and returns (or, when the rendering raises,
\* logs again in its except block and re-raises).
RobustAttempt ==
    /\ spc = "loop"
    /\ client = "robust"
    /\ MoreAttempts(attempt, retries)
    /\ \E o \in TransportOutcomes :
        /\ sleeps' = sleeps \o SleepBefore(attempt, delay)
        /\ posts' = Append(posts, [attempt |-> attempt, outcome |-> o,
                                   payload |-> PostedPayload(payload, attempt)])
        /\ IF o.kind = "status" /\ IsSuccess(o.status) /\ ~JsonRaises(o.body)
           THEN /\ spc' = "done"
                /\ IF RenderRaises(o.body)
                   THEN /\ slog' = slog \o <<LogEntry("OUT", payload),
                                         LogEntry("ERR", payload)>>
                        /\ sresult' = "raised"
                        /\ sraised' = Err("shape", attempt, o.status)
                        /\ sout' = sout
                   ELSE /\ slog' = Append(slog, LogEntry("OUT", payload))
                        /\ sresult' = "returned"
                        /\ sraised' = sraised
                        /\ sout' = Render(o.body)
                /\ UNCHANGED <<attempt, delay, lastErr>>
           ELSE /\ lastErr' = AttemptError(o, attempt)
                /\ delay' = NextDelayRobust(delay, backoff)
                /\ attempt' = attempt + 1
                /\ UNCHANGED <<spc, slog, sresult, sraised, sout>>
    /\ UNCHANGED <<client, apiKey, sArgs, payload, retries, backoff>>
    /\ UNCHANGED <<llmVars, pureVars>>

\* _http after its loop (`assert last_err is not None; raise last_err`) and
\* _run's except block, which logs and re-raises.
RobustExit ==
    /\ spc = "loop"
    /\ client = "robust"
    /\ ~MoreAttempts(attempt, retries)
    /\ spc' = "done"
    /\ slog' = Append(slog, LogEntry("ERR", payload))
    /\ sresult' = "raised"
    /\ sraised' = IF lastErr = NoErr THEN Err("assertion", 0, 0) ELSE lastErr
    /\ UNCHANGED <<client, apiKey, sArgs, payload, retries, backoff, attempt,
                   delay, lastErr, posts, sleeps, sout>>
    /\ UNCHANGED <<llmVars, pureVars>>

\* serper_search up to the first iteration of its loop: without a key it
\* raises before anything is logged.
ToolStart ==
    /\ spc = "idle"
    /\ client = "tool"
    /\ IF MissingKey(apiKey)
       THEN /\ spc' = "done"
            /\ sresult' = "raised"
            /\ sraised' = Err("nokey", 0, 0)
            /\ UNCHANGED <<payload, attempt, delay, lastErr>>
       ELSE /\ spc' = "loop"
            /\ payload' = ToolPayload(sArgs.query, sArgs.num)
            /\ attempt' = 1
            /\ delay' = InitialDelayTool
            /\ lastErr' = NoErr
            /\ UNCHANGED <<sresult, sraised>>
    /\ UNCHANGED <<client, apiKey, sArgs, retries, backoff, posts, sleeps, slog, sout>>
    /\ UNCHANGED <<llmVars, pureVars>>

\* One iteration of serper_search's loop: decoding and rendering a 2xx answer
\* happen inside the try block, so what they raise is caught like a
\* transport error.
ToolAttempt ==
    /\ spc = "loop"
    /\ client = "tool"
    /\ MoreAttempts(attempt, retries)
    /\ \E o \in TransportOutcomes :
        /\ sleeps' = sleeps \o SleepBefore(attempt, delay)
        /\ posts' = Append(posts, [attempt |-> attempt, outcome |-> o,
                                   payload |-> PostedPayload(payload, attempt)])
        /\ IF /\ o.kind = "status" /\ IsSuccess(o.status)
              /\ ~JsonRaises(o.body) /\ ~RenderRaises(o.body)
           THEN /\ spc' = "done"
                /\ slog' = Append(slog, LogEntry("OUT", payload))
                /\ sresult' = "returned"
                /\ sout' = Render(o.body)
                /\ UNCHANGED <<attempt, delay, lastErr>>
           ELSE /\ lastErr' = AttemptError(o, attempt)
                /\ delay' = NextDelayTool(delay, backoff)
                /\ attempt' = attempt + 1
                /\ UNCHANGED <<spc, slog, sresult, sout>>
    /\ UNCHANGED <<client, apiKey, sArgs, payload, retries, backoff, sraised>>
    /\ UNCHANGED <<llmVars, pureVars>>

\* serper_search after its loop: logs, then `raise last_err` (a TypeError
\* when last_err is None).
ToolExit ==
    /\ spc = "loop"
    /\ client = "tool"
    /\ ~MoreAttempts(attempt, retries)
    /\ spc' = "done"
    /\ slog' = Append(slog, LogEntry("ERR", payload))
    /\ sresult' = "raised"
    /\ sraised' = IF lastErr = NoErr THEN Err("typeerror", 0, 0) ELSE lastErr
    /\ UNCHANGED <<client, apiKey, sArgs, payload, retries, backoff, attempt,
                   delay, lastErr, posts, sleeps, sout>>
    /\ UNCHANGED <<llmVars, pureVars>>

NextSearch ==
    \/ RobustRun
    \/ RobustAttempt
    \/ RobustExit
    \/ ToolStart
    \/ ToolAttempt
    \/ ToolExit

\* ---------------------------------------------------------- LLM: actions

InitLLM ==
    /\ SearchAbsent
    /\ PureAbsent
    /\ lpc = "new"
    /\ cfgArg \in StyleArgs
    /\ cfgEnv \in StyleEnvs
    /\ cfgBase \in BaseUrls
    /\ apiStyle = <<>>
    /\ selfTemp = Some(2)
    /\ kwargs = NoKwargs
    /\ lposts = <<>>
    /\ ltraces = <<>>
    /\ lresult = "none"
    /\ lraised = NoLLMErr
    /\ ltext = ""

\* LoggingLLM.__init__: settles self.api_style, or raises ValueError.
LLMInit ==
    /\ lpc = "new"
    /\ IF SupportedStyle(ChooseStyle(cfgArg, cfgEnv, cfgBase))
       THEN /\ lpc' = "ready"
            /\ apiStyle' = ChooseStyle(cfgArg, cfgEnv, cfgBase)
            /\ UNCHANGED lraised
       ELSE /\ lpc' = "failed"
            /\ lraised' = [kind |-> "valueerror", url |-> "none", status |-> 0]
            /\ UNCHANGED apiStyle
    /\ UNCHANGED <<cfgArg, cfgEnv, cfgBase, selfTemp, kwargs, lposts, ltraces,
                   lresult, ltext>>
    /\ UNCHANGED <<searchVars, pureVars>>

\* LoggingLLM.call up to its first POST: the branch on self.api_style.
CallStart ==
    /\ lpc \in {"ready", "done"}
    /\ lpc' = IF apiStyle = OLLAMA THEN "chat" ELSE "openai"
    /\ lposts' = <<>>
    /\ ltraces' = <<>>
    /\ lresult' = "none"
    /\ lraised' = NoLLMErr
    /\ ltext' = ""
    /\ UNCHANGED <<cfgArg, cfgEnv, cfgBase, apiStyle, selfTemp, kwargs>>
    /\ UNCHANGED <<searchVars, pureVars>>

\* A call that ends by returning `text`, its trace file written.
Returns(url, text) ==
    /\ lpc' = "done"
    /\ ltraces' = Append(ltraces, [url |-> url, text |-> text])
    /\ lresult' = "returned"
    /\ ltext' = text
    /\ UNCHANGED lraised

\* A call that ends by an exception leaving call(): nothing on the way out
\* writes a trace file.
Raises(url, o) ==
    /\ lpc' = "done"
    /\ lresult' = "raised"
    /\ lraised' = LLMError(url, o)
    /\ UNCHANGED <<ltraces, ltext>>

\* The native path: POST {base}/api/chat and what follows in the try block.
PostChat ==
    /\ lpc = "chat"
    /\ \E o \in LLMOutcomes :
        /\ lposts' = Append(lposts,
               [url |-> "/api/chat", outcome |-> o,
                options |-> ChatOptions(kwargs, Temperature(kwargs, selfTemp))])
        /\ IF o.kind = "ok" /\ o.body.shape = "object"
           THEN Returns("/api/chat", ChatText(o.body))
           ELSE IF FallsBack(o)
                THEN /\ lpc' = "generate"
                     /\ UNCHANGED <<ltraces, lresult, lraised, ltext>>
                ELSE Raises("/api/chat", o)
    /\ UNCHANGED <<cfgArg, cfgEnv, cfgBase, apiStyle, selfTemp, kwargs>>
    /\ UNCHANGED <<searchVars, pureVars>>

\* The fallback: POST {base}/api/generate.  The prompt and the payload are
\* built from the same messages and kwargs that built the /api/chat payload
\* (role/content objects, numeric options), so building them raises nothing.
PostGenerate ==
    /\ lpc = "generate"
    /\ \E o \in LLMOutcomes :
        /\ lposts' = Append(lposts,
               [url |-> "/api/generate", outcome |-> o,
                options |-> GenOptions(kwargs, Temperature(kwargs, selfTemp))])
        /\ IF o.kind = "ok" /\ o.body.shape = "object"
           THEN Returns("/api/generate", GenText(o.body))
           ELSE Raises("/api/generate", o)
    /\ UNCHANGED <<cfgArg, cfgEnv, cfgBase, apiStyle, selfTemp, kwargs>>
    /\ UNCHANGED <<searchVars, pureVars>>

\* The OpenAI-compatible path: POST {base}/chat/completions; its body has
\* no options sub-object.
PostOpenAI ==
    /\ lpc = "openai"
    /\ \E o \in LLMOutcomes :
        /\ lposts' = Append(lposts,
               [url |-> "/chat/completions", outcome |-> o,
                options |-> EmptyOptions])
        /\ IF o.kind = "ok" /\ o.body.shape = "object"
           THEN Returns("/chat/completions", OpenAIText(o.body))
           ELSE Raises("/chat/completions", o)
    /\ UNCHANGED <<cfgArg, cfgEnv, cfgBase, apiStyle, selfTemp, kwargs>>
    /\ UNCHANGED <<searchVars, pureVars>>

\* The native path under every combination of generation parameters: one
\* instance configured for ollama.
InitOptions ==
    /\ SearchAbsent
    /\ PureAbsent
    /\ lpc = "new"
    /\ cfgArg = Str(OLLAMA)
    /\ cfgEnv = Unset
    /\ cfgBase = <<"h">>
    /\ apiStyle = <<>>
    /\ selfTemp \in SelfTemperatures
    /\ kwargs \in KwargsValues
    /\ lposts = <<>>
    /\ ltraces = <<>>
    /\ lresult = "none"
    /\ lraised = NoLLMErr
    /\ ltext = ""

NextOptions ==
    \/ LLMInit
    \/ CallStart
    \/ PostChat
    \/ PostGenerate

NextLLM ==
    \/ LLMInit
    \/ CallStart
    \/ PostChat
    \/ PostGenerate
    \/ PostOpenAI

\* ------------------------------------------------------- specifications

SpecSearch == InitSearch /\ [][NextSearch]_vars
SpecQuery == InitQuery /\ [][NextQuery]_vars
SpecRender == InitRender /\ [][NextRender]_vars
SpecTrace == InitTrace /\ [][NextTrace]_vars
SpecMain == InitMain /\ [][NextMain]_vars
SpecOptions == InitOptions /\ [][NextOptions]_vars
SpecLLM == InitLLM /\ [][NextLLM]_vars

\* ================================================================ claims

\* The status answered on the i-th POST of the search call, 0 when the POST
\* raised instead.
PostStatus(i) == posts[i].outcome.status
PostAnswered(i) == posts[i].outcome.kind = "status"

\* C1: in both search clients, an HTTP answer whose status is neither 2xx nor
\* one of 429, 500, 502, 503, 504 ends the call at once: no further POST is
\* issued after it.
C1_NonRetryableStatusEndsCall ==
    \A i \in 1..Len(posts) :
        (/\ PostAnswered(i)
         /\ ~(200 <= PostStatus(i) /\ PostStatus(i) < 300)
         /\ PostStatus(i) \notin {429, 500, 502, 503, 504})
        => i = Len(posts)

\* C2: every finished invocation of a search client (_run, serper_search),
\* returning or raising, has appended exactly one entry to the serper log.
C2_ExactlyOneLogEntry ==
    spc = "done" => Len(slog) = 1

\* C3: every finished LoggingLLM.call, on any path, returning or raising, has
\* written exactly one human-readable trace file.
C3_ExactlyOneTraceFile ==
    lpc = "done" => Len(ltraces) = 1

\* Whether the call's first POST went to /api/chat and was answered 404.
ChatAnswered404 ==
    /\ Len(lposts) >= 1
    /\ lposts[1].url = "/api/chat"
    /\ lposts[1].outcome.kind = "http"
    /\ lposts[1].outcome.status = 404

\* C4: on the native path, a 404 answer to the POST to /api/chat is followed
\* by exactly one more POST, to /api/generate, and by no other request; the
\* call returns the text of that second response (its response field or its
\* message.content, the empty string when it has neither).
C4_FallbackToGenerateOnce ==
    ChatAnswered404 =>
        /\ Len(lposts) <= 2
        /\ lpc \in {"generate", "done"}
        /\ lpc = "generate" => Len(lposts) = 1 /\ lresult = "none"
        /\ lpc = "done" =>
            /\ Len(lposts) = 2
            /\ lposts[2].url = "/api/generate"
            /\ LET o == lposts[2].outcome
                   given == {o.body.response, o.body.content} \ {"absent", ""}
               IN  (o.kind = "ok" /\ o.body.shape = "object") =>
                       /\ lresult = "returned"
                       /\ IF given = {} THEN ltext = "" ELSE ltext \in given

\* C4, witness: a call that was answered 404 on /api/chat and returned the
\* response field of /api/generate's answer.
C4_Witness ==
    /\ ChatAnswered404
    /\ lpc = "done"
    /\ Len(lposts) = 2
    /\ lresult = "returned"
    /\ ltext = "R"

\* Whether the call's first POST went to /api/chat and failed otherwise than
\* by a 404 answer: another error status, or a network-level failure.
ChatFailedNot404 ==
    /\ Len(lposts) >= 1
    /\ lposts[1].url = "/api/chat"
    /\ \/ lposts[1].outcome.kind = "http" /\ lposts[1].outcome.status # 404
       \/ lposts[1].outcome.kind \in {"timeout", "connection"}

\* C5: on the native path, when the POST to /api/chat fails with anything
\* other than HTTP 404, no POST to /api/generate is issued in that call and
\* that error leaves the call.
C5_NoFallbackOnOtherErrors ==
    ChatFailedNot404 =>
        /\ Len(lposts) = 1
        /\ lpc = "done"
        /\ lresult = "raised"
        /\ lraised.url = "/api/chat"
        /\ lraised.kind = lposts[1].outcome.kind
        /\ lraised.status = lposts[1].outcome.status
        /\ ltraces = <<>>

\* C5, witness: a call whose POST to /api/chat was answered 500.
C5_Witness ==
    /\ ChatFailedNot404
    /\ lposts[1].outcome.status = 500
    /\ lresult = "raised"

RECURSIVE Pow(_, _)
Pow(b, k) == IF k = 0 THEN 1 ELSE b * Pow(b, k - 1)

\* The configured backoff sequence: the sleep before attempt k >= 2 is
\* 0.2 s * b^(k-2), in ticks (b in halves).
ConfiguredSleep(k) == (DelayScale * Pow(backoff, k - 2)) \div Pow(2, k - 2)

RECURSIVE ConfiguredSleepSum(_)
ConfiguredSleepSum(n) ==
    IF n < 2 THEN 0 ELSE ConfiguredSleep(n) + ConfiguredSleepSum(n - 1)

RECURSIVE SleptUpTo(_)
SleptUpTo(i) == IF i = 0 THEN 0 ELSE sleeps[i].dur + SleptUpTo(i - 1)

\* The time the call slept in all.
TotalSlept == SleptUpTo(Len(sleeps))

\* A 2xx answer carrying a search response as the wire contract has it: a
\* JSON object.
GoodAnswer(i) ==
    /\ PostAnswered(i)
    /\ PostStatus(i) = 200
    /\ posts[i].outcome.body \in {"empty", "organic"}

\* The transport has so far answered 503 to every attempt before the
\* retries-th and 200 to the retries-th.
Script503Then200 ==
    /\ retries >= 1
    /\ posts # <<>>
    /\ \A i \in 1..Len(posts) :
        IF i < retries
        THEN PostAnswered(i) /\ PostStatus(i) = 503
        ELSE GoodAnswer(i)

C7_PostsWithinAttempts ==
    Len(posts) <= retries

\* C7, witness: a finished call that used a budget of three attempts in
\* full, the transport timing out, refusing the connection and answering 503.
C7_Witness ==
    /\ spc = "done"
    /\ retries = 3
    /\ Len(posts) = 3
    /\ posts[1].outcome.kind = "timeout"
    /\ posts[2].outcome.kind = "connection"
    /\ PostStatus(3) = 503

\* A retryable condition: one of the retryable statuses, a timeout or a
\* connection failure.
RetryableCondition(o) ==
    \/ o.kind = "status" /\ o.status \in {429, 500, 502, 503, 504}
    \/ o.kind \in {"timeout", "connection"}

AllRetryableSoFar ==
    /\ retries >= 1
    /\ posts # <<>>
    /\ \A i \in 1..Len(posts) : RetryableCondition(posts[i].outcome)

\* C8: when every attempt of a search call fails with a retryable condition,
\* nothing surfaces while attempts remain, and the call raises after all N
\* attempts the error observed on the N-th.
C8_LastErrorAfterAllAttempts ==
    AllRetryableSoFar =>
        /\ Len(posts) < retries => spc = "loop" /\ sresult = "none"
        /\ spc = "done" =>
            /\ Len(posts) = retries
            /\ sresult = "raised"
            /\ sraised.attempt = retries
            /\ sraised.status = PostStatus(retries)
            /\ sraised.kind = posts[retries].outcome.kind

\* C8, witness: a call that raised the third attempt's timeout after a 429
\* and a 503.
C8_Witness ==
    /\ AllRetryableSoFar
    /\ spc = "done"
    /\ retries = 3
    /\ PostStatus(1) = 429
    /\ PostStatus(2) = 503
    /\ sraised = [kind |-> "timeout", attempt |-> 3, status |-> 0]

\* C9: in both search clients no sleep happens before the first attempt, and
\* the sleep before attempt k >= 2 lasts 0.2 s * b^(k-2).
C9_BackoffSchedule ==
    /\ \A i \in 1..Len(sleeps) :
        /\ sleeps[i].before >= 2
        /\ sleeps[i].dur = ConfiguredSleep(sleeps[i].before)
    /\ \A k \in 2..Len(posts) :
        ConfiguredSleep(k) > 0 => \E i \in 1..Len(sleeps) : sleeps[i].before = k

\* The style configured explicitly: the api_style argument, else
\* LLM_API_STYLE, stripped and lowercased; empty when there is none.
ExplicitStyle ==
    ToLower(Strip(IF cfgArg.given /\ cfgArg.val # <<>> THEN cfgArg.val
                  ELSE IF cfgEnv.given THEN cfgEnv.val ELSE <<>>))

\* Whether the base URL ends with the path segment /v1 (trailing slashes
\* aside).
RECURSIVE EndsWithV1Segment(_)
EndsWithV1Segment(url) ==
    IF url # <<>> /\ url[Len(url)] = "/"
    THEN EndsWithV1Segment(SubSeq(url, 1, Len(url) - 1))
    ELSE /\ Len(url) >= 3
         /\ url[Len(url) - 2] = "/"
         /\ url[Len(url) - 1] = "v"
         /\ url[Len(url)] = "1"

\* C10: once a LoggingLLM is constructed, through every call on it,
\* returning or raising, api_style is one of openai and ollama: the style
\* configured explicitly when there is one, otherwise openai exactly when the
\* base URL ends with the path segment /v1.
C10_StyleChosenOnce ==
    lpc \notin {"new", "failed"} =>
        /\ apiStyle \in {OPENAI, OLLAMA}
        /\ IF ExplicitStyle # <<>>
           THEN apiStyle = ExplicitStyle
           ELSE apiStyle = OPENAI <=> EndsWithV1Segment(cfgBase)

\* C10, witness: an instance without an explicit style whose base URL ends
\* in /v1/, after a call on it that raised.
C10_Witness ==
    /\ lpc = "done"
    /\ lresult = "raised"
    /\ ExplicitStyle = <<>>
    /\ cfgBase = <<"h", "/", "v", "1", "/">>
    /\ apiStyle = OPENAI

\* ------------------------------------------------------------------- C11

AUTO == <<"a", "u", "t", "o">>

\* C11: a LoggingLLM configured, by argument or by LLM_API_STYLE, with a
\* style that is neither openai nor ollama never becomes usable: __init__
\* raises ValueError, no style is settled (the base URL is not consulted in
\* its place) and no HTTP request is ever issued.
C11_UnsupportedStyleFails ==
    ExplicitStyle \notin {<<>>, OPENAI, OLLAMA} =>
        /\ lpc \in {"new", "failed"}
        /\ lpc = "failed" => lraised.kind = "valueerror"
        /\ apiStyle = <<>>
        /\ lposts = <<>>
        /\ lresult = "none"

\* C11, witness: the style 'auto' with a base URL ending in /v1, from which
\* openai would have been inferred; the constructor has raised.
C11_Witness ==
    /\ lpc = "failed"
    /\ ExplicitStyle = AUTO
    /\ InferStyle(cfgBase) = OPENAI
    /\ lraised.kind = "valueerror"
    /\ lposts = <<>>

\* ------------------------------------------------------------------- C12

\* C12: without a Serper credential nothing is requested: no POST is issued,
\* no attempt is started and nothing is slept; SerperDevToolRobust fails in
\* its constructor and serper_search on entry, both with the missing-key
\* error.
C12_NoKeyNoRequest ==
    ~apiKey =>
        /\ posts = <<>>
        /\ sleeps = <<>>
        /\ attempt = 0
        /\ spc # "loop"
        /\ client = "robust" => spc = "ctorfailed" /\ sraised.kind = "nokey"
        /\ (client = "tool" /\ spc = "done") =>
               sresult = "raised" /\ sraised.kind = "nokey"

\* C12, witness: serper_search called without a key has raised the
\* missing-key error.
C12_Witness ==
    /\ ~apiKey
    /\ client = "tool"
    /\ spc = "done"
    /\ sraised.kind = "nokey"
    /\ posts = <<>>

\* ------------------------------------------------------------------- C13

\* q holds one of the five keywords somewhere, in whatever case
MentionsKeyword(q) ==
    \E k \in {"tip", "guide", "how to", "mistakes", "things to know"} :
        \E i \in 1..(Len(q) - Len(k) + 1) :
            StrLower(SubSeq(q, i, i + Len(k) - 1)) = k

\* C13, as claimed: the filtered query contains the boost clause exactly
\* when q contains none of the keywords tip, guide, how to, mistakes, things
\* to know (in any case, as substrings).
C13_BoostIffNoKeyword ==
    qpc = "built" => (StrContains(qOut, BoostClause) <=> ~MentionsKeyword(qArg))

\* str.startswith
StrStartsWith(s, prefix) ==
    Len(prefix) <= Len(s) /\ SubSeq(s, 1, Len(prefix)) = prefix

\* C13, amended: the boost clause follows q as a part of its own exactly
\* when q contains none of the keywords; in that case, and in no other unless
\* q or an exclusion term itself holds the clause's text, the filtered query
\* contains the clause.
C13_BoostAppendedIffNoKeyword ==
    qpc = "built" =>
        /\ StrStartsWith(qOut, qArg \o " " \o BoostClause \o " ")
               <=> ~MentionsKeyword(qArg)
        /\ ~MentionsKeyword(qArg) => StrContains(qOut, BoostClause)
        /\ StrContains(qOut, BoostClause) =>
               \/ ~MentionsKeyword(qArg)
               \/ StrContains(qArg, BoostClause)
               \/ \E i \in 1..Len(EnvList(envTerms)) :
                      StrContains(EnvList(envTerms)[i], BoostClause)

\* C13, witness: a query whose only keyword is in upper case, built without
\* the clause.
C13_Witness ==
    /\ qpc = "built"
    /\ qArg = "Rome TIPS"
    /\ ~StrContains(qOut, BoostClause)

\* ------------------------------------------------------------------- C14

\* How many times `clause` stands in s as a part of its own, between spaces
\* or the ends of s.
ClauseCount(s, clause) ==
    LET padded == " " \o s \o " "
        part == " " \o clause \o " "
    IN  Cardinality({ i \in 1..(Len(padded) - Len(part) + 1) :
                          SubSeq(padded, i, i + Len(part) - 1) = part })

\* the elements of a sequence
Range(seq) == { seq[i] : i \in 1..Len(seq) }

\* C14: for every value of SEARCH_EXCLUDE_TERMS and SEARCH_EXCLUDE_DOMAINS,
\* the filtered query holds the clause -"term" exactly once for each term of
\* the built-in terms united with the environment's, and -site:domain exactly
\* once for each domain of the built-in domains united with the environment's.
C14_EachExclusionOnce ==
    qpc = "built" =>
        /\ \A t \in Range(DEFAULT_EXCLUDE_TERMS) \cup Range(EnvList(envTerms)) :
               ClauseCount(qOut, "-\"" \o t \o "\"") = 1
        /\ \A d \in Range(DEFAULT_EXCLUDE_DOMAINS) \cup Range(EnvList(envDomains)) :
               ClauseCount(qOut, "-site:" \o d) = 1

\* ------------------------------------------------------------------- C15

\* C15: rendering a decoded 2xx answer never raises, whatever the body; an
\* organic list [{title: T, link: L, snippet: S}] renders to the single line
\* "- [T](L) -- S"; a body with neither an organic nor a results key is
\* returned as its raw JSON; the rendering never returns an empty string.
C15_RenderNeverRaises ==
    rpc = "done" =>
        /\ rOut.kind # "raised"
        /\ (rData.obj /\ rData.organic = LList(<<PlainItem>>)) =>
               rOut.kind = "text" /\ rOut.text = "- [T](L) -- S"
        /\ (rData.obj /\ rData.organic = LAbsent /\ rData.results = LAbsent) =>
               rOut.kind = "json" /\ rOut.json.of = rData
        /\ rOut.kind = "text" => rOut.text # ""

\* ------------------------------------------------------------------- C16

\* the number of lines of a rendered text
LineCount(text) ==
    IF text = "" THEN 0
    ELSE 1 + Cardinality({ i \in 1..Len(text) : SubSeq(text, i, i) = "\n" })

\* the first of the values that is a non-empty string, "" if there is none
RECURSIVE FirstNonEmpty(_)
FirstNonEmpty(vals) ==
    IF vals = <<>> THEN ""
    ELSE IF Head(vals).t = "str" /\ Head(vals).s # "" THEN Head(vals).s
         ELSE FirstNonEmpty(Tail(vals))

\* C16, as claimed: whenever the rendering returns, the list read is organic
\* if the organic key is present and results only if it is absent, cut to
\* the limit; an item is dropped exactly when it has neither a title (title,
\* else name, else link) nor a link (link, else url), and every other item
\* gives one line.
C16_DropsItemsMissingBoth ==
    (rpc = "done" /\ rOut.kind # "raised") =>
        LET items == Take((IF rData.organic.t # "absent" THEN rData.organic
                           ELSE rData.results).v, Limit(rClient, rNum))
            kept == SelectSeq(items, LAMBDA it :
                        \/ FirstNonEmpty(<<it.title, it.name, it.link>>) # ""
                        \/ FirstNonEmpty(<<it.link, it.url>>) # "")
        IN  LineCount(rOut.text) = Len(kept)

\* the line the spec gives for an item that has a title and a link
ExpectedLine(it) ==
    "- [" \o FirstNonEmpty(<<it.title, it.name, it.link>>) \o "]("
          \o FirstNonEmpty(<<it.link, it.url>>) \o ") -- "
          \o StrStrip(FirstNonEmpty(<<it.snippet, it.summary>>))

\* C16, amended: whenever the rendering returns, the list read is organic if
\* it is a non-empty list and results otherwise, cut to the limit; an item is
\* dropped exactly when it lacks a title (title, else name, else link) or
\* lacks a link (link, else url); every other item gives its line, in input
\* order, and with no line left the raw JSON is returned.
C16_DropsItemsMissingEither ==
    (rpc = "done" /\ rOut.kind # "raised") =>
        LET items == Take((IF rData.organic.t = "list" /\ rData.organic.v # <<>>
                           THEN rData.organic
                           ELSE rData.results).v, Limit(rClient, rNum))
            kept == SelectSeq(items, LAMBDA it :
                        /\ FirstNonEmpty(<<it.title, it.name, it.link>>) # ""
                        /\ FirstNonEmpty(<<it.link, it.url>>) # "")
        IN  IF Len(kept) = 0
            THEN rOut.kind = "json" /\ rOut.json.of = rData
            ELSE /\ rOut.kind = "text"
                 /\ rOut.text = StrJoin([i \in 1..Len(kept) |->
                                            ExpectedLine(kept[i])], "\n")

\* C16, witness: an empty organic list beside a results list, rendered from
\* the results.
C16_Witness ==
    /\ rpc = "done"
    /\ rData.organic = LList(<<>>)
    /\ rData.results = LList(<<OtherItem>>)
    /\ rOut.kind = "text"
    /\ rOut.text = "- [N](U) -- Y"

\* ------------------------------------------------------------------- C17

\* the body of the answer the call's last POST received
LastAnswer == lposts[Len(lposts)].outcome.body

\* the endpoint of the call's last POST
LastUrl == lposts[Len(lposts)].url

\* a field of the body that is there and not empty
Filled(t) == t # "absent" /\ t # ""

\* C17, as claimed: on the native path, from /api/chat and from
\* /api/generate alike, the text returned is message.content if that field
\* is present, otherwise the top-level response, otherwise "".
C17_ContentFirstOnBothEndpoints ==
    (lpc = "done" /\ lresult = "returned" /\ apiStyle = OLLAMA) =>
        ltext = IF Filled(LastAnswer.content) THEN LastAnswer.content
                ELSE IF Filled(LastAnswer.response) THEN LastAnswer.response
                ELSE ""

\* C17, amended: on the native path the text returned from /api/chat is
\* message.content if it is present and not empty, otherwise response,
\* otherwise ""; the text returned from /api/generate is response if it is
\* present and not empty, otherwise message.content, otherwise "".
C17_EachEndpointItsOwnFieldFirst ==
    (lpc = "done" /\ lresult = "returned" /\ apiStyle = OLLAMA) =>
        LET first == IF LastUrl = "/api/chat" THEN LastAnswer.content
                     ELSE LastAnswer.response
            second == IF LastUrl = "/api/chat" THEN LastAnswer.response
                      ELSE LastAnswer.content
        IN  ltext = IF Filled(first) THEN first
                    ELSE IF Filled(second) THEN second ELSE ""

\* C17, witness: /api/generate answered with both fields and the call
\* returned the response field.
C17_Witness ==
    /\ lpc = "done"
    /\ lresult = "returned"
    /\ LastUrl = "/api/generate"
    /\ LastAnswer.content = "M"
    /\ LastAnswer.response = "R"
    /\ ltext = "R"

\* ------------------------------------------------------------------- C18

\* C18: two concurrent calls with the same model id that start in the same
\* second and log into the same directory never write the same trace file:
\* their prefixes differ, and each finds its own file in the directory.
C18_DistinctTraceFiles ==
    \A c \in Calls, d \in Calls :
        ( /\ c # d
          /\ tcalls[c].pc = "returned"
          /\ tcalls[d].pc = "returned"
          /\ tcalls[c].model = tcalls[d].model
          /\ tcalls[c].stamp = tcalls[d].stamp ) =>
            /\ TracePrefix(tcalls[c].stamp, tcalls[c].model, tcalls[c].token)
                   # TracePrefix(tcalls[d].stamp, tcalls[d].model, tcalls[d].token)
            /\ \E f \in tfiles : f.by = c
            /\ \E f \in tfiles : f.by = d

\* ------------------------------------------------------------------- C19

\* the call POSTed to /api/chat, got 404 and POSTed to /api/generate
FellBack ==
    /\ Len(lposts) = 2
    /\ lposts[1].url = "/api/chat"
    /\ lposts[2].url = "/api/generate"

C20_PayloadBuiltOnce ==
    /\ \A i \in 1..Len(posts) :
           posts[i].payload = payload /\ posts[i].payload = posts[1].payload
    /\ \A j \in 1..Len(slog) :
           /\ slog[j].payload = payload
           /\ \A i \in 1..Len(posts) : slog[j].payload = posts[i].payload

\* C20, witness: a call of SerperDevToolRobust that POSTed three times and
\* logged its failure.
C20_Witness ==
    /\ spc = "done"
    /\ client = "robust"
    /\ Len(posts) = 3
    /\ posts[3].payload = posts[1].payload
    /\ posts[1].payload.num = DefaultNum
    /\ Len(slog) = 1
    /\ slog[1].payload = posts[3].payload

\* ------------------------------------------------------------------- C22

\* the call went through its attempt loop and left it without returning
LeftLoop ==
    /\ spc = "done"
    /\ sresult = "raised"
    /\ ~(attempt <= retries)

\* C22: whenever a search call leaves its attempt loop without returning, an
\* error was recorded in last_err and that error is what the call raises,
\* for every configured retry count, 0 included.
C22_ExitAssertionHolds ==
    LeftLoop => (lastErr # NoErr /\ sraised = lastErr)

\* ------------------------------------------------------------------- C23

\* C23: a POST answered with a 2xx status is the last POST of its search
\* call, whatever the body of the answer.
C23_SuccessStatusEndsLoop ==
    \A i \in 1..Len(posts) :
        (PostAnswered(i) /\ 200 <= PostStatus(i) /\ PostStatus(i) < 300)
            => i = Len(posts)

\* ------------------------------------------------------------------- C21

\* the tasks of the later stages, each with the file its prior stage persists
PriorOutput(key) ==
    CASE key = "outline" -> RESEARCH_MD
      [] key = "script" -> OUTLINE_MD
      [] key = "edit_pass" -> SCRIPT_MD
      [] OTHER -> ""

\* the text was produced by the prior stage of `key` in loop iteration idx
FromPriorStage(t, key, idx) ==
    /\ t.iter = idx
    /\ OutputFile(t.key) = PriorOutput(key)

\* C21: in a run of stage 'all', no file of outputs/ is read for a context
\* before a stage of the same topic's run has written it, and the context
\* of the outline, script and edit_pass tasks of a crew holds the output the
\* prior stage produced in that run.
C21_ContextFromSameRun ==
    mStage = "all" =>
        /\ \A k \in 1..Len(mEvents) :
               mEvents[k].ev = "read" =>
                   \E j \in 1..(k - 1) :
                       /\ mEvents[j].ev = "wrote"
                       /\ mEvents[j].idx = mEvents[k].idx
                       /\ mEvents[j].what = mEvents[k].what
        /\ mpc = "kickoff" =>
               \A k \in 1..Len(mTasks) :
                   mTasks[k].key \in {"outline", "script", "edit_pass"} =>
                       \E p \in 1..Len(mTasks[k].context.parts) :
                           FromPriorStage(mTasks[k].context.parts[p],
                                          mTasks[k].key, mIdx)

\* ------------------------------------------------------------------- C24

\* the positions of mEvents holding an event of the given kind
EventsOf(ev) == { k \in 1..Len(mEvents) : mEvents[k].ev = ev }

\* The topics are taken in the order given: the i-th topic taken is
\* args.topics[i], and the run never goes back to an earlier topic.
TopicsInOrder ==
    /\ \A k \in EventsOf("topic") :
           /\ mEvents[k].what = mTopics[mEvents[k].idx]
           /\ mEvents[k].idx = Cardinality({ j \in EventsOf("topic") : j <= k })
    /\ \A j, k \in 1..Len(mEvents) : j <= k => mEvents[j].idx <= mEvents[k].idx

\* A crew run that raised is the last thing the run did: main() is left and
\* no later topic is built or run.
FailureStopsRun ==
    \A k \in EventsOf("failed") : k = Len(mEvents) /\ mpc = "exited"

\* main() returns 0 only after the crew run of every topic has completed.
ZeroOnlyIfAllCompleted ==
    mExit = Returned(0) =>
        \A i \in 1..Len(mTopics) :
            \E k \in EventsOf("completed") : mEvents[k].idx = i

\* The preflight runs right before a topic's crew is built exactly when the
\* stage is 'all' or 'research' and --skip-preflight is not set.
PreflightExactlyWhenResearch ==
    LET wanted == mStage \in {"all", "research"} /\ ~mSkip
    IN  /\ \A k \in EventsOf("preflight") : wanted
        /\ \A k \in EventsOf("build") :
               wanted <=> (k > 1 /\ mEvents[k - 1] = Event("preflight", mEvents[k].idx, "ok"))

\* C24 as stated: topics are processed in order; the first topic whose crew
\* run raises stops the run with exit code 2 and no later topic is built or
\* run; 0 is returned only if every topic completed; the preflight runs
\* before each topic's crew exactly when the stage is 'all' or 'research'
\* and --skip-preflight is not set.
C24_FirstFailureExitsWithTwo ==
    /\ TopicsInOrder
    /\ FailureStopsRun
    /\ \A k \in EventsOf("failed") : mExit = Returned(2)
    /\ ZeroOnlyIfAllCompleted
    /\ PreflightExactlyWhenResearch

\* C24 (amended): as stated, except that only a crew run raising an ordinary
\* exception ends main() with code 2; a SystemExit raised by the crew run
\* leaves main() as that SystemExit, with its own status.
C24_FirstFailureStopsRun ==
    /\ TopicsInOrder
    /\ FailureStopsRun
    /\ \A k \in EventsOf("failed") :
           IF mEvents[k].what = "SystemExit"
           THEN mExit.kind = "SystemExit"
           ELSE mExit = Returned(2)
    /\ ZeroOnlyIfAllCompleted
    /\ PreflightExactlyWhenResearch

\* The crew run of the first of two topics raised an ordinary exception
\* after the preflight: main() returned 2 and the second topic was not taken.
C24_Witness ==
    /\ mpc = "exited"
    /\ Len(mTopics) = 2
    /\ mIdx = 1
    /\ mExit = Returned(2)
    /\ EventsOf("preflight") # {}
    /\ mEvents[Len(mEvents)] = Event("failed", 1, "Exception")

====
